---- MODULE Spec2Model ----
(***************************************************************************)
(* A model of the symbolic differentiator: decimal constants, the          *)
(* expression tree (base.py, expressions.py), the lexer and the two-stack  *)
(* precedence parser (input_parser.py).                                    *)
(*                                                                         *)
(* Strings are sequences of one-character strings.  Values that the code   *)
(* raises as exceptions are the tuples <<"Err", kind>>.                    *)
(***************************************************************************)
EXTENDS Integers, Sequences, FiniteSets, TLC

\* ------------------------------------------------------------------ bounds
\* Largest coefficient of a decimal the model represents (decimal's own
\* precision is 28 digits); a result with a larger coefficient, an inexact
\* result or an infinity is <<"Err", "OutOfRange">>: the run leaves the model.
MaxCoef == 99999999
\* Largest magnitude of a decimal exponent the model represents.
MaxExp == 9
\* Longest input drawn character by character.
MaxLen == 4
\* Most UnaryExpression and BinaryExpression constructor calls of a run of
\* SpecExpr.
MaxNodes == 3

\* ------------------------------------------------------------ exceptions
Err(kind) == <<"Err", kind>>

IsErr(v) == v[1] = "Err"

\* -------------------------------------------------------------- decimals
\* decimal.Decimal as (sign, coefficient, exponent), the triple base.py
\* itself uses for e and pi; sign is 0 or 1.
Decimal(sign, int, exp) ==
    IF int > MaxCoef \/ exp > MaxExp \/ exp < -MaxExp
    THEN Err("OutOfRange")
    ELSE <<"Decimal", sign, int, exp>>

Min2(a, b) == IF a <= b THEN a ELSE b

Max2(a, b) == IF a >= b THEN a ELSE b

\* c * 10^k, or -1 when it exceeds limit.
Shift(c, k, limit) ==
    IF c = 0 THEN 0
    ELSE IF k > 8 THEN -1
    ELSE IF c > limit \div (10 ^ k) THEN -1
    ELSE c * (10 ^ k)

RECURSIVE StripZeros(_, _)
\* The coefficient and exponent with the trailing zeros of the coefficient
\* moved into the exponent (zero is <<0, 0>>): equal values, equal pairs.
StripZeros(c, e) ==
    IF c = 0 THEN <<0, 0>>
    ELSE IF c % 10 = 0 THEN StripZeros(c \div 10, e + 1)
    ELSE <<c, e>>

\* Decimal.__eq__: equality of values, whatever the exponents and the sign of
\* a zero ('1.0' == '1', '-0' == '0').
Decimal_eq(a, b) ==
    /\ StripZeros(a[3], a[4]) = StripZeros(b[3], b[4])
    /\ (a[3] = 0 \/ a[2] = b[2])

Decimal_is_zero(a) == a[3] = 0

Decimal_copy_negate(a) == <<"Decimal", 1 - a[2], a[3], a[4]>>

\* Decimal.__add__ (ROUND_HALF_EVEN): the exponent is the smaller one.
Decimal_add(a, b) ==
    LET exp == Min2(a[4], b[4])
        ca  == Shift(a[3], a[4] - exp, 2 * MaxCoef)
        cb  == Shift(b[3], b[4] - exp, 2 * MaxCoef)
    IN  IF ca < 0 \/ cb < 0 THEN Err("OutOfRange")
        ELSE IF a[3] = 0 /\ b[3] = 0 THEN Decimal(Min2(a[2], b[2]), 0, exp)
        ELSE IF a[3] = 0 THEN Decimal(b[2], cb, exp)
        ELSE IF b[3] = 0 THEN Decimal(a[2], ca, exp)
        ELSE IF a[2] = b[2] THEN Decimal(a[2], ca + cb, exp)
        ELSE IF ca = cb THEN Decimal(0, 0, exp)
        ELSE IF ca > cb THEN Decimal(a[2], ca - cb, exp)
        ELSE Decimal(b[2], cb - ca, exp)

\* Decimal.__sub__: self + (-other).
Decimal_sub(a, b) == Decimal_add(a, Decimal_copy_negate(b))

\* Decimal.__mul__.
Decimal_mul(a, b) ==
    LET sign == IF a[2] = b[2] THEN 0 ELSE 1
    IN  IF a[3] # 0 /\ b[3] > MaxCoef \div a[3] THEN Err("OutOfRange")
        ELSE Decimal(sign, a[3] * b[3], a[4] + b[4])

RECURSIVE GCD(_, _)
GCD(a, b) == IF b = 0 THEN a ELSE GCD(b, a % b)

RECURSIVE CountFactor(_, _)
\* How many times p divides n (n > 0).
CountFactor(n, p) == IF n % p = 0 THEN 1 + CountFactor(n \div p, p) ELSE 0

RECURSIVE PowUp(_, _, _)
\* acc * c^k, or -1 when it leaves the modelled range.
PowUp(c, acc, k) ==
    IF k = 0 THEN acc
    ELSE IF c = 1 THEN acc
    ELSE IF acc > MaxCoef \div c THEN -1
    ELSE PowUp(c, acc * c, k - 1)

\* The exact quotient ca/cb (both > 0) as <<coefficient, -digits>>, the
\* fewest fraction digits that make it an integer; <<-1, 0>> when the
\* quotient does not terminate or leaves the modelled range.
ExactQuotient(ca, cb) ==
    LET times(m, c, k) == IF m < 0 THEN -1 ELSE PowUp(c, m, k)
        quotient(d, a2, a5, k, q) ==
          IF d # (2 ^ a2) * (5 ^ a5) THEN <<-1, 0>>
          ELSE IF q < 0 THEN <<-1, 0>>
          ELSE <<q, -k>>
        scaled(n, d, a2, a5, k) ==
          quotient(d, a2, a5, k,
                   times(times(PowUp(2, 1, k - a2), 5, k - a5), n, 1))
        factored(n, d, a2, a5) == scaled(n, d, a2, a5, Max2(a2, a5))
        lowest(n, d) == factored(n, d, CountFactor(d, 2), CountFactor(d, 5))
        reduced(g) == lowest(ca \div g, cb \div g)
    IN  reduced(GCD(ca, cb))

\* Decimal.__truediv__: x/0 raises DivisionByZero, 0/0 InvalidOperation; an
\* exact quotient keeps the ideal exponent exp(a) - exp(b) when it can.
Decimal_truediv(a, b) ==
    LET sign == IF a[2] = b[2] THEN 0 ELSE 1
        exact(q) ==
          IF q[1] < 0 THEN Err("OutOfRange")
          ELSE Decimal(sign, q[1], a[4] - b[4] + q[2])
    IN  IF b[3] = 0
        THEN (IF a[3] = 0 THEN Err("InvalidOperation") ELSE Err("DivisionByZero"))
        ELSE IF a[3] = 0 THEN Decimal(sign, 0, a[4] - b[4])
        ELSE exact(ExactQuotient(a[3], b[3]))

\* Decimal._isinteger.
Decimal_isinteger(a) ==
    \/ a[4] >= 0
    \/ a[3] = 0
    \/ (-a[4] <= 8 /\ a[3] % (10 ^ (-a[4])) = 0)

\* int(a) for an integral a, without its sign; -1 when it leaves the range.
Decimal_int(a) ==
    IF a[4] >= 0 THEN Shift(a[3], a[4], MaxCoef)
    ELSE IF a[3] = 0 THEN 0
    ELSE a[3] \div (10 ^ (-a[4]))

\* Decimal.__pow__ with the default context.  A result that is inexact, or
\* exact for a non-integral exponent (decimal pads it to its 28 digits), or
\* infinite, is outside the modelled range.
Decimal_pow(a, b) ==
    LET power(n, isint, s) ==
          LET sign == IF a[2] = 1 /\ isint /\ b[4] <= 0 /\ n % 2 = 1 THEN 1 ELSE 0
              positive(cn) ==
                IF cn < 0 THEN Err("OutOfRange") ELSE Decimal(sign, cn, a[4] * n)
              inverse(inv, q) ==
                IF inv[1] < 0 \/ q < 0 THEN Err("OutOfRange")
                ELSE Decimal(sign, q, (inv[2] - s[2]) * n)
              negative(inv) == inverse(inv, PowUp(inv[1], 1, n))
          IN  IF b[3] = 0
              THEN (IF a[3] = 0 THEN Err("InvalidOperation") ELSE Decimal(0, 1, 0))
              ELSE IF a[2] = 1 /\ ~isint /\ a[3] # 0 THEN Err("InvalidOperation")
              ELSE IF a[3] = 0
              THEN (IF b[2] = 0 THEN Decimal(sign, 0, 0) ELSE Err("OutOfRange"))
              ELSE IF ~isint THEN Err("OutOfRange")
              ELSE IF s = <<1, 0>>
              THEN (IF b[2] = 1 \/ a[4] = 0 THEN Decimal(sign, 1, 0)
                    ELSE IF n < 0 \/ n > MaxExp THEN Err("OutOfRange")
                    ELSE IF -(a[4] * n) > 8 THEN Err("OutOfRange")
                    ELSE Decimal(sign, 10 ^ (-(a[4] * n)), a[4] * n))
              ELSE IF n < 0 THEN Err("OutOfRange")
              ELSE IF b[2] = 0 THEN positive(PowUp(a[3], 1, n))
              ELSE negative(ExactQuotient(1, s[1]))
    IN  power(Decimal_int(b), Decimal_isinteger(b), StripZeros(a[3], a[4]))

\* Decimal.ln with the default context: ln(1) is 0, a negative argument is
\* an InvalidOperation; ln(0) is -Infinity and every other value is inexact.
Decimal_ln(a) ==
    IF a[3] = 0 THEN Err("OutOfRange")
    ELSE IF a[2] = 1 THEN Err("InvalidOperation")
    ELSE IF StripZeros(a[3], a[4]) = <<1, 0>> THEN Decimal(0, 0, 0)
    ELSE Err("OutOfRange")

\* --------------------------------------------------- decimals and strings
DigitChars == <<"0", "1", "2", "3", "4", "5", "6", "7", "8", "9">>

IsDigit(ch) == \E d \in 1..10 : DigitChars[d] = ch

DigitVal(ch) == (CHOOSE d \in 1..10 : DigitChars[d] = ch) - 1

RECURSIVE DigitsVal(_)
\* int(digits) for a sequence of digit characters; -1 when out of range.
DigitsVal(ds) ==
    IF ds = <<>> THEN 0
    ELSE LET hi == DigitsVal(SubSeq(ds, 1, Len(ds) - 1))
         IN  IF hi < 0 \/ hi > MaxCoef \div 10 THEN -1
             ELSE hi * 10 + DigitVal(ds[Len(ds)])

RECURSIVE Digits(_)
\* str(n) for a natural number n.
Digits(n) ==
    IF n < 10 THEN <<DigitChars[n + 1]>>
    ELSE Digits(n \div 10) \o <<DigitChars[(n % 10) + 1]>>

RECURSIVE Zeros(_)
Zeros(k) == IF k <= 0 THEN <<>> ELSE <<"0">> \o Zeros(k - 1)

\* The longest run of digits of s from position i (1-based) on, as a length.
RECURSIVE DigitRun(_, _)
DigitRun(s, i) ==
    IF i <= Len(s) /\ IsDigit(s[i]) THEN 1 + DigitRun(s, i + 1) ELSE 0

\* Decimal(str) for the syntax [sign] digits [. digits] [E [sign] digits];
\* what is not a number of that syntax raises InvalidOperation (the infinity
\* and NaN forms of decimal's syntax hold letters no token of the lexer has).
Decimal_from_string(v) ==
    LET p0   == IF v # <<>> /\ v[1] \in {"-", "+"} THEN 2 ELSE 1
        sign == IF v # <<>> /\ v[1] = "-" THEN 1 ELSE 0
        ni   == DigitRun(v, p0)
        p1   == p0 + ni
        dot  == p1 <= Len(v) /\ v[p1] = "."
        nf   == IF dot THEN DigitRun(v, p1 + 1) ELSE 0
        p2   == IF dot THEN p1 + 1 + nf ELSE p1
        hasE == p2 <= Len(v) /\ v[p2] \in {"E", "e"}
        p3   == IF hasE /\ p2 + 1 <= Len(v) /\ v[p2 + 1] \in {"-", "+"}
                THEN p2 + 2 ELSE p2 + 1
        esgn == IF hasE /\ p2 + 1 <= Len(v) /\ v[p2 + 1] = "-" THEN -1 ELSE 1
        ne   == IF hasE THEN DigitRun(v, p3) ELSE 0
        ev   == IF hasE THEN DigitsVal(SubSeq(v, p3, p3 + ne - 1)) ELSE 0
        end  == IF hasE THEN p3 + ne ELSE p2
        c    == DigitsVal(SubSeq(v, p0, p1 - 1) \o SubSeq(v, p1 + 1, p1 + nf))
    IN  IF ni + nf = 0 \/ end # Len(v) + 1 \/ (hasE /\ ne = 0)
        THEN Err("InvalidOperation")
        ELSE IF c < 0 \/ ev < 0 THEN Err("OutOfRange")
        ELSE Decimal(sign, c, esgn * ev - nf)

\* Decimal.__str__: plain notation when exp <= 0 and the value is not too
\* small, scientific notation otherwise.
Decimal_str(a) ==
    LET int        == Digits(a[3])
        leftdigits == a[4] + Len(int)
        dotplace   == IF a[4] <= 0 /\ leftdigits > -6 THEN leftdigits ELSE 1
        intpart    == IF dotplace <= 0 THEN <<"0">>
                      ELSE IF dotplace >= Len(int)
                      THEN int \o Zeros(dotplace - Len(int))
                      ELSE SubSeq(int, 1, dotplace)
        fracpart   == IF dotplace <= 0 THEN <<".">> \o Zeros(-dotplace) \o int
                      ELSE IF dotplace >= Len(int) THEN <<>>
                      ELSE <<".">> \o SubSeq(int, dotplace + 1, Len(int))
        e          == leftdigits - dotplace
        exp        == IF e = 0 THEN <<>>
                      ELSE IF e > 0 THEN <<"E", "+">> \o Digits(e)
                      ELSE <<"E", "-">> \o Digits(-e)
    IN  (IF a[2] = 1 THEN <<"-">> ELSE <<>>) \o intpart \o fracpart \o exp

\* Decimal.log10 with the default context: exact for a power of ten only.
Decimal_log10(a) ==
    LET s == StripZeros(a[3], a[4])
    IN  IF a[3] = 0 THEN Err("OutOfRange")
        ELSE IF a[2] = 1 THEN Err("InvalidOperation")
        ELSE IF s[1] = 1
        THEN Decimal(IF s[2] < 0 THEN 1 ELSE 0, IF s[2] < 0 THEN -s[2] ELSE s[2], 0)
        ELSE Err("OutOfRange")

\* ---------------------------------------------------------------- Globals
\* Globals.named_consts
named_consts == << <<"e">>, <<"p", "i">> >>

\* Globals.e
Globals_e == Decimal(0, 27182818, -7)

\* Globals.pi
Globals_pi == Decimal(0, 31415926, -7)

\* Globals.__dict__[const]
Globals_value(const) == IF const = <<"e">> THEN Globals_e ELSE Globals_pi

\* Globals.unary_operators, in the order of the list
unary_operators ==
    << <<"-">>,
       <<"s", "q", "r", "t">>,
       <<"l", "o", "g">>,
       <<"l", "o", "g", "1", "0">>,
       <<"e", "x", "p">>,
       <<"s", "i", "n">>,
       <<"c", "o", "s">>,
       <<"t", "a", "n">>,
       <<"s", "e", "c">>,
       <<"c", "o", "s", "e", "c">>,
       <<"c", "o", "t">> >>

\* Globals.binary_operators, in the order of the list
binary_operators == << <<"+">>, <<"-">>, <<"*">>, <<"/">>, <<"^">> >>

\* x in list
In(x, list) == \E k \in 1..Len(list) : list[k] = x

\* ------------------------------------------------------------ Const, Var
\* Const.__init__ for a Decimal or an int already made a Decimal.
Const(value) == IF IsErr(value) THEN value ELSE <<"Const", value>>

\* Const.__init__ for a str: a named constant, or Decimal(value).
Const_of_str(value) ==
    IF In(value, named_consts) THEN Const(Globals_value(value))
    ELSE Const(Decimal_from_string(value))

\* Const(n) for a small int n.
Const_of_int(n) == Const(Decimal(IF n < 0 THEN 1 ELSE 0, IF n < 0 THEN -n ELSE n, 0))

\* Var.__init__
Var(identifier) == <<"Var", identifier>>

IsConst(e) == e[1] = "Const"

\* Const.__eq__
Const_eq(self, other) == IsConst(other) /\ Decimal_eq(self[2], other[2])

\* Var.__eq__
Var_eq(self, other) == other[1] = "Var" /\ self[2] = other[2]

\* Const.__add__, __sub__, __mul__, __truediv__, __pow__, ln
Const_add(self, other) == Const(Decimal_add(self[2], other[2]))

Const_sub(self, other) == Const(Decimal_sub(self[2], other[2]))

Const_mul(self, other) == Const(Decimal_mul(self[2], other[2]))

Const_truediv(self, other) == Const(Decimal_truediv(self[2], other[2]))

Const_pow(self, other) == Const(Decimal_pow(self[2], other[2]))

Const_ln(self) == Const(Decimal_ln(self[2]))

\* Const.__str__: the name of a named constant of that value, else str(Decimal).
Const_str(self) ==
    IF Decimal_eq(self[2], Globals_e) THEN <<"e">>
    ELSE IF Decimal_eq(self[2], Globals_pi) THEN <<"p", "i">>
    ELSE Decimal_str(self[2])

\* ------------------------------------------------------------ expressions
\* A tree is <<"Const", decimal>>, <<"Var", identifier>>,
\* <<"UnaryExpression", operator, operand>> or
\* <<"BinaryExpression", left, operator, right>>.
RECURSIVE simplify(_)
RECURSIVE eq(_, _)
RECURSIVE dx(_, _)
RECURSIVE str(_)

\* UnaryExpression.__init__: the operand is simplified, then the operator is
\* checked.  An argument that raised never reaches the constructor.
UnaryExpression(operator, operand) ==
    LET init(o) ==
          IF IsErr(o) THEN o
          ELSE IF ~In(operator, unary_operators)
          THEN Err("ValueError: No such Unary Operator")
          ELSE <<"UnaryExpression", operator, o>>
    IN  IF IsErr(operand) THEN operand ELSE init(simplify(operand))

\* BinaryExpression.__init__ stored the operands as they were given.
BinaryExpression_unsimplified(left, operator, right) ==
    IF IsErr(left) THEN left
    ELSE IF IsErr(right) THEN right
    ELSE IF ~In(operator, binary_operators) THEN Err("ValueError: No such Binary Operator")
    ELSE <<"BinaryExpression", left, operator, right>>

\* BinaryExpression.__init__: left and right are simplified, in that order,
\* then the operator is checked.
BinaryExpression(left, operator, right) ==
    IF IsErr(left) THEN left
    ELSE IF IsErr(right) THEN right
    ELSE LET init(l, r) ==
               IF IsErr(l) THEN l
               ELSE IF IsErr(r) THEN r
               ELSE IF ~In(operator, binary_operators)
               THEN Err("ValueError: No such Binary Operator")
               ELSE <<"BinaryExpression", l, operator, r>>
         IN  init(simplify(left), simplify(right))

\* UnaryExpression.__eq__
UnaryExpression_eq(self, other) ==
    /\ other[1] = "UnaryExpression"
    /\ self[2] = other[2]
    /\ LET equal(a, b) == ~IsErr(a) /\ ~IsErr(b) /\ eq(a, b)
       IN  equal(simplify(self[3]), simplify(other[3]))

\* BinaryExpression.__eq__: '+' and '*' match in either order.
BinaryExpression_eq(self, other) ==
    /\ other[1] = "BinaryExpression"
    /\ self[3] = other[3]
    /\ IF self[3] \in {<<"+">>, <<"*">>}
       THEN \/ (eq(self[2], other[2]) /\ eq(self[4], other[4]))
            \/ (eq(self[2], other[4]) /\ eq(self[4], other[2]))
       ELSE eq(self[2], other[2]) /\ eq(self[4], other[4])

\* self == other, dispatched on the class of self.
eq(self, other) ==
    CASE self[1] = "Const" -> Const_eq(self, other)
      [] self[1] = "Var" -> Var_eq(self, other)
      [] self[1] = "UnaryExpression" -> UnaryExpression_eq(self, other)
      [] self[1] = "BinaryExpression" -> BinaryExpression_eq(self, other)

\* BinaryExpression.simplify: the rules in the order of the code, the first
\* that matches wins.
BinaryExpression_simplify(self) ==
    LET left  == self[2]
        op    == self[3]
        right == self[4]
        zero  == Const_of_int(0)
        one   == Const_of_int(1)
    IN  IF IsConst(left) /\ IsConst(right)
        THEN CASE op = <<"+">> -> Const_add(left, right)
               [] op = <<"-">> -> Const_sub(left, right)
               [] op = <<"*">> -> Const_mul(left, right)
               [] op = <<"/">> -> Const_truediv(left, right)
               [] op = <<"^">> -> Const_pow(left, right)
        ELSE IF op = <<"+">> /\ eq(left, zero) THEN right
        ELSE IF op = <<"+">> /\ eq(right, zero) THEN left
        ELSE IF op = <<"-">> /\ eq(left, zero) THEN UnaryExpression(<<"-">>, right)
        ELSE IF op = <<"-">> /\ eq(right, zero) THEN left
        ELSE IF op = <<"*">> /\ (eq(zero, left) \/ eq(zero, right)) THEN zero
        ELSE IF op = <<"*">> /\ eq(left, one) THEN right
        ELSE IF op = <<"*">> /\ eq(right, one) THEN left
        ELSE IF op = <<"/">> /\ eq(right, zero)
        THEN Err("ValueError: Division by Zero")
        ELSE IF op = <<"/">> /\ eq(left, zero) THEN zero
        ELSE IF op = <<"/">> /\ eq(right, one) THEN left
        ELSE IF op = <<"^">> /\ eq(right, zero) THEN one
        ELSE IF op = <<"^">> /\ eq(right, one) THEN left
        ELSE self

\* e.simplify(): AbstractExpression.simplify and UnaryExpression.simplify
\* return self.
simplify(e) ==
    IF IsErr(e) THEN e
    ELSE IF e[1] = "BinaryExpression" THEN BinaryExpression_simplify(e)
    ELSE e

\* Const.dx
Const_dx(self, wrt) == Const_of_int(0)

\* Var.dx
Var_dx(self, wrt) == IF Var_eq(self, wrt) THEN Const_of_int(1) ELSE Const_of_int(0)

\* UnaryExpression.dx: the outer derivative of the switch, times the
\* derivative of the operand.
UnaryExpression_dx(self, wrt) ==
    LET op      == self[2]
        operand == self[3]
        U(o, x) == UnaryExpression(o, x)
        B(l, o, r) == BinaryExpression(l, o, r)
        outer ==
          CASE op = <<"-">> -> Const_of_int(-1)
            [] op = <<"s", "q", "r", "t">> ->
                 B(Const(Decimal(0, 5, -1)), <<"/">>, self)
            [] op = <<"l", "o", "g">> -> B(Const_of_int(1), <<"/">>, operand)
            [] op = <<"l", "o", "g", "1", "0">> ->
                 B(Const(Decimal_log10(Globals_e)), <<"/">>, operand)
            [] op = <<"e", "x", "p">> -> self
            [] op = <<"s", "i", "n">> -> U(<<"c", "o", "s">>, operand)
            [] op = <<"c", "o", "s">> -> U(<<"-">>, U(<<"s", "i", "n">>, operand))
            [] op = <<"t", "a", "n">> ->
                 B(U(<<"s", "e", "c">>, operand), <<"^">>, Const_of_int(2))
            [] op = <<"s", "e", "c">> ->
                 B(self, <<"*">>, U(<<"t", "a", "n">>, operand))
            [] op = <<"c", "o", "s", "e", "c">> ->
                 U(<<"-">>, B(self, <<"*">>, U(<<"c", "o", "t">>, operand)))
            [] op = <<"c", "o", "t">> ->
                 U(<<"-">>, B(U(<<"c", "o", "s", "e", "c">>, operand), <<"^">>,
                              Const_of_int(2)))
    IN  simplify(B(outer, <<"*">>, dx(operand, wrt)))

\* BinaryExpression.dx
BinaryExpression_dx(self, wrt) ==
    LET left  == self[2]
        op    == self[3]
        right == self[4]
        B(l, o, r) == BinaryExpression(l, o, r)
    IN  IF op = <<"^">>
        THEN IF IsConst(right)
             THEN LET exponent ==
                        B(left, <<"^">>, B(right, <<"-">>, Const_of_int(1)))
                  IN  simplify(B(right, <<"*">>, exponent))
             ELSE IF IsConst(left)
             THEN simplify(B(Const_ln(left), <<"*">>, self))
             ELSE Err("NotImplementedError")
        ELSE simplify(
          CASE op = <<"+">> -> B(dx(left, wrt), <<"+">>, dx(right, wrt))
            [] op = <<"-">> -> B(dx(left, wrt), <<"-">>, dx(right, wrt))
            [] op = <<"*">> ->
                 B(B(left, <<"*">>, dx(right, wrt)), <<"+">>,
                   B(right, <<"*">>, dx(left, wrt)))
            [] op = <<"/">> ->
                 B(B(B(right, <<"*">>, dx(left, wrt)), <<"-">>,
                     B(left, <<"*">>, dx(right, wrt))),
                   <<"/">>, B(right, <<"^">>, Const_of_int(2))))

\* e.dx(wrt), dispatched on the class of e.
dx(e, wrt) ==
    CASE e[1] = "Const" -> Const_dx(e, wrt)
      [] e[1] = "Var" -> Var_dx(e, wrt)
      [] e[1] = "UnaryExpression" -> UnaryExpression_dx(e, wrt)
      [] e[1] = "BinaryExpression" -> BinaryExpression_dx(e, wrt)

\* UnaryExpression.__str__
UnaryExpression_str(self) ==
    IF self[2] = <<"-">> THEN <<"(", "-">> \o str(self[3]) \o <<")">>
    ELSE self[2] \o <<"(">> \o str(self[3]) \o <<")">>

\* BinaryExpression.__str__
BinaryExpression_str(self) ==
    <<"(">> \o str(self[2]) \o self[3] \o str(self[4]) \o <<")">>

\* str(e), dispatched on the class of e.
str(e) ==
    CASE e[1] = "Const" -> Const_str(e)
      [] e[1] = "Var" -> e[2]
      [] e[1] = "UnaryExpression" -> UnaryExpression_str(e)
      [] e[1] = "BinaryExpression" -> BinaryExpression_str(e)

\* ------------------------------------------------------------------ Token
\* Token.is_binary_operator
Token_is_binary_operator(value) == In(value, binary_operators)

\* Token.is_unary_operator
Token_is_unary_operator(value) == In(value, unary_operators)

\* Token.is_const: a named constant, or a string Decimal() accepts.
Token_is_const(value) ==
    \/ In(value, named_consts)
    \/ Decimal_from_string(value) # Err("InvalidOperation")

\* Token.is_var: value in 'xyz', the substring test of str.
Token_is_var(value) ==
    LET xyz == <<"x", "y", "z">>
    IN  \E i \in 0..(3 - Len(value)) : SubSeq(xyz, i + 1, i + Len(value)) = value

\* Token.is_terminal
Token_is_terminal(value) == Token_is_const(value) \/ Token_is_var(value)

\* ------------------------------------------------------------------ Lexer
\* str.isspace for one character
isspace(ch) == ch \in {" ", "\t", "\n", "\r"}

\* string.startswith(prefix, index), index counted from 0
startswith(string, prefix, index) ==
    /\ index + Len(prefix) <= Len(string)
    /\ SubSeq(string, index + 1, index + Len(prefix)) = prefix

\* '$' of a regular expression at 1-based position j: the end of the
\* string, or just before a newline that ends it.
AtEnd(s, j) == j = Len(s) + 1 \/ (j = Len(s) /\ s[j] = "\n")

RECURSIVE ZeroRun(_, _)
\* The length of the run of '0' from 1-based position j on.
ZeroRun(s, j) == IF j <= Len(s) /\ s[j] = "0" THEN 1 + ZeroRun(s, j + 1) ELSE 0

\* The lookahead of _num_pattern, -0?(\.0+)?$, at 1-based position p: a
\* negative zero that runs to the end of the string.
NegativeZeroToEnd(s, p) ==
    /\ p <= Len(s)
    /\ s[p] = "-"
    /\ \E j \in {p + 1} \cup (IF p + 1 <= Len(s) /\ s[p + 1] = "0" THEN {p + 2} ELSE {}) :
          \/ AtEnd(s, j)
          \/ /\ j <= Len(s)
             /\ s[j] = "."
             /\ \E m \in 1..ZeroRun(s, j + 1) : AtEnd(s, j + 1 + m)

\* Lexer._num_pattern.match(string[index:]): the length of the match, 0 when
\* there is none.  (?!-0?(\.0+)?$)-?(0|[1-9]\d*)?(\.\d+)?(?<=\d)
num_pattern_match(string, index) ==
    LET p  == index + 1
        p1 == IF p <= Len(string) /\ string[p] = "-" THEN p + 1 ELSE p
        ni == IF p1 <= Len(string) /\ string[p1] = "0" THEN 1
              ELSE DigitRun(string, p1)
        p2 == p1 + ni
        nf == IF p2 <= Len(string) /\ string[p2] = "." THEN DigitRun(string, p2 + 1)
              ELSE 0
    IN  IF NegativeZeroToEnd(string, p) THEN 0
        ELSE IF ni = 0 /\ nf = 0 THEN 0
        ELSE IF nf = 0 THEN p2 - p
        ELSE p2 + 1 + nf - p

\* The first of the names of list that string starts with at index, <<>>
\* when there is none: 'for op in list: if string.startswith(op, index)'.
first_match(list, string, index) ==
    LET hits == {k \in 1..Len(list) : startswith(string, list[k], index)}
    IN  IF hits = {} THEN <<>>
        ELSE list[CHOOSE k \in hits : \A h \in hits : k <= h]

\* An operator that takes the longest of the names instead of the first.
longest_match(list, string, index) ==
    LET hits == {k \in 1..Len(list) : startswith(string, list[k], index)}
    IN  IF hits = {} THEN <<>>
        ELSE list[CHOOSE k \in hits : \A h \in hits : Len(list[k]) >= Len(list[h])]

RECURSIVE skip_space(_, _)
\* peek's own advance of current_index over whitespace.
skip_space(string, index) ==
    IF index < Len(string) /\ isspace(string[index + 1])
    THEN skip_space(string, index + 1)
    ELSE index

\* Lexer.peek: <<"Token", value, current_index after the whitespace>>, or
\* the BadInput it raises.  The rules apply in the order of the code.
Lexer_peek(string, current_index) ==
    LET i     == skip_space(string, current_index)
        n     == num_pattern_match(string, i)
        op    == first_match(unary_operators \o binary_operators, string, i)
        const == first_match(named_consts, string, i)
    IN  IF i >= Len(string) THEN <<"Token", <<>>, i>>
        ELSE IF n > 0 THEN <<"Token", SubSeq(string, i + 1, i + n), i>>
        ELSE IF string[i + 1] \in {"(", ")"} THEN <<"Token", <<string[i + 1]>>, i>>
        ELSE IF op # <<>> THEN <<"Token", op, i>>
        ELSE IF startswith(string, <<"*", "*">>, i) THEN <<"Token", <<"^">>, i>>
        ELSE IF const # <<>> THEN <<"Token", const, i>>
        ELSE IF string[i + 1] \in {"x", "y", "z"} THEN <<"Token", <<string[i + 1]>>, i>>
        ELSE Err("BadInput")

\* Lexer.consume: the index after the token, len(token.value) further; the
\* empty token does not advance.
Lexer_consume(string, current_index) ==
    LET advance(t) == IF IsErr(t) THEN t ELSE <<"Token", t[2], t[3] + Len(t[2])>>
    IN  advance(Lexer_peek(string, current_index))

\* -------------------------------------------------------------- operators
\* BaseOperator(): the sentinel
BaseOperator == <<"BaseOperator", <<>>>>

\* BinaryOperator(op)
BinaryOperator(op) ==
    IF Token_is_binary_operator(op) THEN <<"BinaryOperator", op>>
    ELSE Err("ValueError: Invalid Binary Operator")

\* UnaryOperator(op)
UnaryOperator(op) ==
    IF Token_is_unary_operator(op) THEN <<"UnaryOperator", op>>
    ELSE Err("ValueError: Invalid Unary Operator")

\* precedence of BaseOperator.__gt__
precedence(op) ==
    CASE op = <<"^">> -> 3
      [] op \in {<<"*">>, <<"/">>} -> 2
      [] op \in {<<"+">>, <<"-">>} -> 1

\* BaseOperator.__gt__ with a strict comparison of the precedences.
BaseOperator_gt_strict(self, other) ==
    IF self[1] = "BinaryOperator" /\ other[1] = "BinaryOperator"
    THEN (IF precedence(self[2]) > precedence(other[2]) THEN "True" ELSE "False")
    ELSE IF self[1] = "UnaryOperator" /\ other[1] = "BinaryOperator" THEN "True"
    ELSE IF other[1] = "UnaryOperator" THEN "False"
    ELSE IF self[1] = "BaseOperator" THEN "False"
    ELSE "ValueError"

\* BaseOperator.__gt__ without its test for the sentinel.
BaseOperator_gt_no_sentinel(self, other) ==
    IF self[1] = "BinaryOperator" /\ other[1] = "BinaryOperator"
    THEN (IF precedence(self[2]) >= precedence(other[2]) THEN "True" ELSE "False")
    ELSE IF self[1] = "UnaryOperator" /\ other[1] = "BinaryOperator" THEN "True"
    ELSE IF other[1] = "UnaryOperator" THEN "False"
    ELSE "ValueError"

\* BaseOperator.__gt__: "True", "False", or "ValueError" where it raises.
BaseOperator_gt(self, other) ==
    IF self[1] = "BinaryOperator" /\ other[1] = "BinaryOperator"
    THEN (IF precedence(self[2]) >= precedence(other[2]) THEN "True" ELSE "False")
    ELSE IF self[1] = "UnaryOperator" /\ other[1] = "BinaryOperator" THEN "True"
    ELSE IF other[1] = "UnaryOperator" THEN "False"
    ELSE IF self[1] = "BaseOperator" THEN "False"
    ELSE "ValueError"

\* ----------------------------------------------------------------- Parser
\* Parser.make_terminal
make_terminal(token) ==
    IF Token_is_const(token) THEN Const_of_str(token)
    ELSE IF Token_is_var(token) THEN Var(token)
    ELSE Err("BadInput")

\* Parser.make_unary_expression
make_unary_expression(operator, operand) ==
    simplify(UnaryExpression(operator[2], operand))

\* Parser.make_binary_expression returned the new node as constructed.
make_binary_expression_unsimplified(operator, operand1, operand2) ==
    BinaryExpression(operand1, operator[2], operand2)

\* Parser.make_binary_expression
make_binary_expression(operator, operand1, operand2) ==
    simplify(BinaryExpression(operand1, operator[2], operand2))

\* The state of one run of differentiate.py: the Lexer (string,
\* current_index), the Parser's two stacks, where the parser stands (pc, the
\* return points of the calls in progress, the operator push_operator was
\* called with), what parse returned or raised (result), and what was done
\* with the tree: derivative, and the second parse of its display string
\* (round, first).  SpecExpr instead builds expressions by constructor
\* calls: built holds the expressions built so far, the last one on top,
\* nodes counts the constructor calls, expression is the one simplify() was
\* called on and simplified is what the call returned or raised.
VARIABLES string, current_index, operator_stack, operand_stack, pc, calls,
          operator, result, round, first, derivative,
          built, nodes, expression, simplified

vars == <<string, current_index, operator_stack, operand_stack, pc, calls,
          operator, result, round, first, derivative,
          built, nodes, expression, simplified>>

parser_vars == <<string, current_index, operator_stack, operand_stack, pc,
                 calls, operator, result, round, first, derivative>>

expr_vars == <<built, nodes, expression, simplified>>

None == <<"None">>

\* list[-1]
Top(list) == list[Len(list)]

\* list without its last element, as list.pop() leaves it
Popped(list) == SubSeq(list, 1, Len(list) - 1)

\* Parser.pop_operator: <<"Stacks", operator_stack, operand_stack>> after
\* it, or what it raises (list.pop() of an empty list raises IndexError).
pop_operator(operators, operands) ==
    LET n == Len(operands)
        append(rest, e) ==
          IF IsErr(e) THEN e
          ELSE <<"Stacks", Popped(operators), Append(rest, e)>>
    IN  IF operators = <<>> THEN Err("IndexError")
        ELSE IF Top(operators)[1] = "BinaryOperator"
        THEN IF n < 2 THEN Err("IndexError")
             ELSE append(SubSeq(operands, 1, n - 2),
                         make_binary_expression(Top(operators), operands[n - 1],
                                                operands[n]))
        ELSE IF Top(operators)[1] = "UnaryOperator"
        THEN IF n < 1 THEN Err("IndexError")
             ELSE append(SubSeq(operands, 1, n - 1),
                         make_unary_expression(Top(operators), operands[n]))
        ELSE Err("ValueError: pop_operator called for sentinel")

\* An exception leaves parse: nothing is returned.
Raise(e) ==
    /\ pc' = "done"
    /\ result' = e
    /\ UNCHANGED <<operator_stack, operand_stack, calls, operator>>

\* A return to the caller's return point.
Return ==
    /\ pc' = Head(calls)
    /\ calls' = Tail(calls)

\* Parser.parse, up to its call of parse_e, and parse_e up to its first call
\* of parse_p.
Parser_parse ==
    /\ pc = "parse"
    /\ operator_stack' = Append(operator_stack, BaseOperator)
    /\ pc' = "parse_p"
    /\ calls' = <<"parse_e_loop", "parse_expect">>
    /\ UNCHANGED <<string, current_index, operand_stack, operator, result,
                   round, first, derivative>>

\* Parser.parse_p.  A unary operator goes to push_operator, after which
\* parse_p calls itself and returns what that call leaves: no return point
\* is kept for it.
Parser_parse_p ==
    /\ pc = "parse_p"
    /\ \E t \in {Lexer_peek(string, current_index)},
          c \in {Lexer_consume(string, current_index)} :
           IF IsErr(t) THEN Raise(t) /\ UNCHANGED current_index
           ELSE IF Token_is_terminal(t[2])
           THEN \E e \in {make_terminal(t[2])} :
                    IF IsErr(e) THEN Raise(e) /\ current_index' = c[3]
                    ELSE /\ operand_stack' = Append(operand_stack, e)
                         /\ current_index' = c[3]
                         /\ Return
                         /\ UNCHANGED <<operator_stack, operator, result>>
           ELSE IF t[2] = <<"(">>
           THEN /\ current_index' = c[3]
                /\ operator_stack' = Append(operator_stack, BaseOperator)
                /\ pc' = "parse_p"
                /\ calls' = <<"parse_e_loop", "parse_p_close">> \o calls
                /\ UNCHANGED <<operand_stack, operator, result>>
           ELSE IF Token_is_unary_operator(t[2])
           THEN /\ current_index' = c[3]
                /\ operator' = UnaryOperator(c[2])
                /\ pc' = "push_operator"
                /\ UNCHANGED <<operator_stack, operand_stack, calls, result>>
           ELSE Raise(Err("BadInput")) /\ current_index' = t[3]
    /\ UNCHANGED <<string, round, first, derivative>>

\* The loop of Parser.parse_e: a binary operator goes to push_operator and
\* then to parse_p; anything else ends the loop.
Parser_parse_e_loop ==
    /\ pc = "parse_e_loop"
    /\ \E t \in {Lexer_peek(string, current_index)},
          c \in {Lexer_consume(string, current_index)} :
           IF IsErr(t) THEN Raise(t) /\ UNCHANGED current_index
           ELSE IF Token_is_binary_operator(t[2])
           THEN /\ current_index' = c[3]
                /\ operator' = BinaryOperator(c[2])
                /\ pc' = "push_operator"
                /\ UNCHANGED <<operator_stack, operand_stack, calls, result>>
           ELSE /\ current_index' = t[3]
                /\ pc' = "parse_e_reduce"
                /\ UNCHANGED <<operator_stack, operand_stack, calls, operator,
                               result>>
    /\ UNCHANGED <<string, round, first, derivative>>

\* One turn of the loop of Parser.push_operator: pop_operator while the top
\* outranks the operator, then the append and the caller's parse_p.
Parser_push_operator ==
    /\ pc = "push_operator"
    /\ IF operator_stack = <<>> THEN Raise(Err("IndexError"))
       ELSE \E gt \in {BaseOperator_gt(Top(operator_stack), operator)},
               p \in {pop_operator(operator_stack, operand_stack)} :
                IF gt = "ValueError"
                THEN Raise(Err("ValueError: Comparison not implemented"))
                ELSE IF gt = "True"
                THEN IF IsErr(p) THEN Raise(p)
                     ELSE /\ operator_stack' = p[2]
                          /\ operand_stack' = p[3]
                          /\ UNCHANGED <<pc, calls, operator, result>>
                ELSE /\ operator_stack' = Append(operator_stack, operator)
                     /\ pc' = "parse_p"
                     /\ calls' = IF operator[1] = "BinaryOperator"
                                 THEN <<"parse_e_loop">> \o calls
                                 ELSE calls
                     /\ UNCHANGED <<operand_stack, operator, result>>
    /\ UNCHANGED <<string, current_index, round, first, derivative>>

\* One turn of the last loop of Parser.parse_e: pop_operator while the top
\* is not a sentinel, then the return.
Parser_parse_e_reduce ==
    /\ pc = "parse_e_reduce"
    /\ IF operator_stack = <<>> THEN Raise(Err("IndexError"))
       ELSE IF Top(operator_stack)[1] # "BaseOperator"
       THEN \E p \in {pop_operator(operator_stack, operand_stack)} :
                IF IsErr(p) THEN Raise(p)
                ELSE /\ operator_stack' = p[2]
                     /\ operand_stack' = p[3]
                     /\ UNCHANGED <<pc, calls, operator, result>>
       ELSE /\ Return
            /\ UNCHANGED <<operator_stack, operand_stack, operator, result>>
    /\ UNCHANGED <<string, current_index, round, first, derivative>>

\* Parser.parse_p after parse_e: expect(')') and the pop of the sentinel.
Parser_parse_p_close ==
    /\ pc = "parse_p_close"
    /\ \E t \in {Lexer_peek(string, current_index)},
          c \in {Lexer_consume(string, current_index)} :
           IF IsErr(t) THEN Raise(t) /\ UNCHANGED current_index
           ELSE IF t[2] # <<")">> THEN Raise(Err("BadInput")) /\ current_index' = t[3]
           ELSE IF operator_stack = <<>>
           THEN Raise(Err("IndexError")) /\ current_index' = c[3]
           ELSE /\ current_index' = c[3]
                /\ operator_stack' = Popped(operator_stack)
                /\ Return
                /\ UNCHANGED <<operand_stack, operator, result>>
    /\ UNCHANGED <<string, round, first, derivative>>

\* Parser.parse after parse_e: expect(Token("")), the assertion, the return
\* of operand_stack[0].
Parser_parse_expect ==
    /\ pc = "parse_expect"
    /\ \E t \in {Lexer_peek(string, current_index)} :
           IF IsErr(t) THEN Raise(t) /\ UNCHANGED current_index
           ELSE IF t[2] # <<>> THEN Raise(Err("BadInput")) /\ current_index' = t[3]
           ELSE IF Len(operand_stack) # 1
           THEN Raise(Err("AssertionError")) /\ current_index' = t[3]
           ELSE /\ current_index' = t[3]
                /\ pc' = "done"
                /\ result' = operand_stack[1]
                /\ UNCHANGED <<operator_stack, operand_stack, calls, operator>>
    /\ UNCHANGED <<string, round, first, derivative>>

\* differentiate.py: expression.dx(var).simplify() of the parsed expression.
Differentiate ==
    /\ pc = "done"
    /\ round = 1
    /\ ~IsErr(result)
    /\ derivative = None
    /\ \E wrt \in {<<"x">>, <<"y">>, <<"z">>} :
          derivative' = <<"Derivative", wrt, simplify(dx(result, Var(wrt)))>>
    /\ UNCHANGED <<string, current_index, operator_stack, operand_stack, pc,
                   calls, operator, result, round, first>>

\* The display string differentiate.py prints ("Input parsed as: "), given
\* to a new Parser.
Reparse ==
    /\ pc = "done"
    /\ round = 1
    /\ ~IsErr(result)
    /\ derivative = None
    /\ string' = str(result)
    /\ current_index' = 0
    /\ operator_stack' = <<>>
    /\ operand_stack' = <<>>
    /\ pc' = "parse"
    /\ calls' = <<>>
    /\ operator' = None
    /\ result' = None
    /\ round' = 2
    /\ first' = result
    /\ UNCHANGED derivative

\* ----------------------------------------------------------------- inputs
\* The characters of the inputs drawn character by character.
Alphabet == {"x", "0", "-", "+", "*", "/", "(", ")", " ", "."}

CharInputs == UNION {[1..n -> Alphabet] : n \in 0..MaxLen}

\* The operand texts and the inputs 'p a q b r'.
Operands == << <<"x">>, <<"y">>, <<"z">>, <<"2">> >>

PrecedenceInput(p, a, q, b, r) ==
    p \o <<" ">> \o a \o <<" ">> \o q \o <<" ">> \o b \o <<" ">> \o r

PrecedenceInputs ==
    {PrecedenceInput(Operands[p], binary_operators[a], Operands[q],
                     binary_operators[b], Operands[r]) :
        p \in 1..Len(Operands), a \in 1..Len(binary_operators),
        q \in 1..Len(Operands), b \in 1..Len(binary_operators),
        r \in 1..Len(Operands)}

\* Inputs of the kinds the users of differentiate.py type.
SampleInputs ==
    { <<"l", "o", "g", "1", "0", "(", "x", ")">>,
       <<"c", "o", "s", "e", "c", "(", "x", ")">>,
       <<"l", "o", "g", "(", "x", ")">>,
       <<"c", "o", "s", "(", "x", ")">>,
       <<"x", " ", "*", "*", " ", "y">>,
       <<"x", " ", "^", " ", "y">>,
       <<"x", "^", "2">>,
       <<"(", "x", "^", "y", ")", "^", "2">>,
       <<"s", "i", "n", "(", "x", "^", "y", ")">>,
       <<"s", "i", "n", "(", "1", ")", "^", "2">>,
       <<"2", "^", "s", "i", "n", "(", "1", ")">>,
       <<"l", "o", "g", "(", "0", ")">>,
       <<"s", "i", "n", "(", "2", ")">>,
       <<"s", "i", "n", "(", "x", ")">>,
       <<"x", " ", "-", " ", "1">>,
       <<"-", " ", "2">>,
       <<"s", "i", "n">>,
       <<"x", " ", "+">>,
       <<"-", "0", " ", "+", " ", "x">>,
       <<"-", "0", ".", "0", " ", "+", " ", "x">>,
       <<"3", " ", "+", " ", "4">>,
       <<"x", " ", "/", " ", "0">>,
       <<"2", " ", "x">>,
       <<"e">>,
       <<"p", "i", " ", "*", " ", "x">>,
       <<"s", "q", "r", "t", "(", "x", ")">>,
       <<"e", "x", "p", "(", "x", ")">>,
       <<"t", "a", "n", "(", "x", ")">>,
       <<"s", "e", "c", "(", "x", ")">>,
       <<"c", "o", "t", "(", "x", ")">>,
       <<"x", " ", "*", " ", "y">>,
       <<"x", " ", "/", " ", "y">>,
       <<"(", "x", " ", "+", " ", "y", ")", " ", "*", " ", "2">>,
       <<"1", ".", "5", " ", "*", " ", "x">>,
       <<"-", "x", " ", "^", " ", "2">> }

\* The inputs 'p ** q' and 'p ^ q'.
PowerInput(p, op, q) == p \o <<" ">> \o op \o <<" ">> \o q

PowerInputs ==
    {PowerInput(Operands[p], op, Operands[q]) :
        p \in 1..Len(Operands), op \in {<<"*", "*">>, <<"^">>},
        q \in 1..Len(Operands)}

Inputs == CharInputs \cup PrecedenceInputs \cup PowerInputs \cup SampleInputs

\* ------------------------------------------------------------------- Spec
\* Parser.__init__ and Lexer.__init__ on an input string.
Init ==
    /\ string \in Inputs
    /\ current_index = 0
    /\ operator_stack = <<>>
    /\ operand_stack = <<>>
    /\ pc = "parse"
    /\ calls = <<>>
    /\ operator = None
    /\ result = None
    /\ round = 1
    /\ first = None
    /\ derivative = None
    /\ built = <<>>
    /\ nodes = 0
    /\ expression = None
    /\ simplified = None

Next ==
    \/ Parser_parse /\ UNCHANGED expr_vars
    \/ Parser_parse_p /\ UNCHANGED expr_vars
    \/ Parser_parse_e_loop /\ UNCHANGED expr_vars
    \/ Parser_push_operator /\ UNCHANGED expr_vars
    \/ Parser_parse_e_reduce /\ UNCHANGED expr_vars
    \/ Parser_parse_p_close /\ UNCHANGED expr_vars
    \/ Parser_parse_expect /\ UNCHANGED expr_vars
    \/ Differentiate /\ UNCHANGED expr_vars
    \/ Reparse /\ UNCHANGED expr_vars

Spec == Init /\ [][Next]_vars

\* --------------------------------------------------------------- SpecExpr
\* The leaves and the operators the constructor calls of SpecExpr draw from.
Leaves == {Var(<<"x">>), Const_of_int(0), Const_of_int(1)}

BuildUnaryOperators == {<<"-">>, <<"sin">>}

BuildBinaryOperators == {binary_operators[i] : i \in 1..Len(binary_operators)}

\* No parser runs in SpecExpr; the first leaf is built.
InitExpr ==
    /\ string = <<>>
    /\ current_index = 0
    /\ operator_stack = <<>>
    /\ operand_stack = <<>>
    /\ pc = "build"
    /\ calls = <<>>
    /\ operator = None
    /\ result = None
    /\ round = 1
    /\ first = None
    /\ derivative = None
    /\ built \in {<<l>> : l \in Leaves}
    /\ nodes = 0
    /\ expression = None
    /\ simplified = None

\* Const(...) or Var(...): one more leaf.  Every expression but the last
\* needs a BinaryExpression to be joined to another.
Build_leaf ==
    /\ pc = "build"
    /\ Len(built) + nodes <= MaxNodes
    /\ \E l \in Leaves : built' = Append(built, l)
    /\ UNCHANGED <<nodes, expression, simplified>>

\* UnaryExpression(op, e) of the expression built last.  A constructor that
\* raises ends the run.
Build_unary ==
    /\ pc = "build"
    /\ nodes < MaxNodes
    /\ \E op \in BuildUnaryOperators :
          LET e == UnaryExpression(op, Top(built))
          IN  IF IsErr(e)
              THEN pc' = "done" /\ simplified' = e /\ UNCHANGED built
              ELSE /\ built' = Append(Popped(built), e)
                   /\ UNCHANGED <<pc, simplified>>
    /\ nodes' = nodes + 1
    /\ UNCHANGED expression

\* BinaryExpression(left, op, right) of the two expressions built last.
Build_binary ==
    /\ pc = "build"
    /\ nodes < MaxNodes
    /\ Len(built) >= 2
    /\ \E op \in BuildBinaryOperators :
          LET n == Len(built)
              e == BinaryExpression(built[n - 1], op, built[n])
          IN  IF IsErr(e)
              THEN pc' = "done" /\ simplified' = e /\ UNCHANGED built
              ELSE /\ built' = Append(SubSeq(built, 1, n - 2), e)
                   /\ UNCHANGED <<pc, simplified>>
    /\ nodes' = nodes + 1
    /\ UNCHANGED expression

\* e.simplify() of the one expression built.
Simplify ==
    /\ pc = "build"
    /\ Len(built) = 1
    /\ expression' = built[1]
    /\ simplified' = simplify(built[1])
    /\ pc' = "done"
    /\ UNCHANGED <<built, nodes>>

idle_parser == <<string, current_index, operator_stack, operand_stack, calls,
                 operator, result, round, first, derivative>>

NextExpr ==
    \/ Build_leaf /\ UNCHANGED <<pc, idle_parser>>
    \/ Build_unary /\ UNCHANGED idle_parser
    \/ Build_binary /\ UNCHANGED idle_parser
    \/ Simplify /\ UNCHANGED idle_parser

SpecExpr == InitExpr /\ [][NextExpr]_vars

\* ----------------------------------------------------------------- claims
\* A run that left the modelled range of decimals says nothing about the code.
InRange(v) == v # Err("OutOfRange")

\* C1: for every input string that parse accepts, parsing the display string
\* (str) of the resulting tree succeeds and yields a tree equal (==) to the
\* first one; round 2 is the parse of the display string, first the tree of
\* round 1.
\* The inputs taken here are those whose tree has no empty identifier and no
\* negative zero, so that a failure is one of the rendering and not of the
\* end-of-input token or of the number pattern.
RECURSIVE HasEmptyVarOrNegativeZero(_)
HasEmptyVarOrNegativeZero(e) ==
    CASE e[1] = "Var" -> e[2] = <<>>
      [] e[1] = "Const" -> e[2][2] = 1 /\ e[2][3] = 0
      [] e[1] = "UnaryExpression" -> HasEmptyVarOrNegativeZero(e[3])
      [] e[1] = "BinaryExpression" ->
            HasEmptyVarOrNegativeZero(e[2]) \/ HasEmptyVarOrNegativeZero(e[4])

RoundTrip ==
    (round = 2 /\ pc = "done" /\ InRange(result) /\ ~HasEmptyVarOrNegativeZero(first))
        => (~IsErr(result) /\ eq(result, first))

\* C2: simplify is idempotent: whenever e.simplify() returns a tree for an
\* expression e built through the constructors, simplifying that tree again
\* returns a tree equal (==) to it.
SimplifyIdempotent ==
    (pc = "done" /\ expression # None /\ ~IsErr(simplified))
        => (~IsErr(simplify(simplified)) /\ eq(simplify(simplified), simplified))

\* A simplify() call that rewrote a BinaryExpression into another one.
SimplifyIdempotentWitness ==
    /\ pc = "done"
    /\ expression # None
    /\ ~IsErr(simplified)
    /\ simplified # expression
    /\ simplified[1] = "BinaryExpression"
    /\ nodes = MaxNodes

\* C3: for every expression that contains no Var leaf and for every
\* variable wrt, the derivative (dx(wrt) simplified) is a tree equal to
\* Const(0).
RECURSIVE HasVar(_)
HasVar(e) ==
    CASE e[1] = "Var" -> TRUE
      [] e[1] = "Const" -> FALSE
      [] e[1] = "UnaryExpression" -> HasVar(e[3])
      [] e[1] = "BinaryExpression" -> HasVar(e[2]) \/ HasVar(e[4])

ConstantOnlyDerivativeIsZero ==
    (derivative # None /\ ~HasVar(result) /\ InRange(derivative[3]))
        => (~IsErr(derivative[3]) /\ eq(derivative[3], Const_of_int(0)))

\* C4: the input 'p a q b r' parses as (p a q) b r when the precedence of a
\* is at least that of b and as p a (q b r) otherwise, with ^ = 3, * and
\* / = 2, + and - = 1; so every binary operator, ^ included, associates to
\* the left.
ClaimedPrecedence(op) ==
    IF op = <<"^">> THEN 3 ELSE IF op \in {<<"*">>, <<"/">>} THEN 2 ELSE 1

\* The tree the claim gives for string = 'p a q b r', built as the parser
\* builds a tree (make_terminal, make_binary_expression).
ClaimedTree(s) ==
    LET p == make_terminal(<<s[1]>>)
        a == <<s[3]>>
        q == make_terminal(<<s[5]>>)
        b == <<s[7]>>
        r == make_terminal(<<s[9]>>)
    IN  IF ClaimedPrecedence(a) >= ClaimedPrecedence(b)
        THEN make_binary_expression(BinaryOperator(b),
                 make_binary_expression(BinaryOperator(a), p, q), r)
        ELSE make_binary_expression(BinaryOperator(a), p,
                 make_binary_expression(BinaryOperator(b), q, r))

PrecedenceAndLeftAssociativity ==
    (round = 1 /\ pc = "done" /\ string \in PrecedenceInputs)
        => result = ClaimedTree(string)

\* 'x ^ y ^ z' has been parsed as ((x^y)^z).
PrecedenceAndLeftAssociativityWitness ==
    /\ round = 1
    /\ pc = "done"
    /\ string = <<"x", " ", "^", " ", "y", " ", "^", " ", "z">>
    /\ result = <<"BinaryExpression",
                   <<"BinaryExpression", Var(<<"x">>), <<"^">>, Var(<<"y">>)>>,
                   <<"^">>, Var(<<"z">>)>>

\* C5: the end-of-input token matches no classification, so whenever parse_p
\* finds the input at its end, parse fails with BadInput (SyntaxError) and
\* returns no tree.
EndOfInputIsSyntaxError ==
    [][(/\ pc = "parse_p"
        /\ ~IsErr(Lexer_peek(string, current_index))
        /\ Lexer_peek(string, current_index)[2] = <<>>)
          => (pc' = "done" /\ result' = Err("BadInput"))]_vars

\* The parser is about to peek at the token at current_index.
Peeking == pc \in {"parse_p", "parse_e_loop", "parse_p_close", "parse_expect"}

\* C6: the lexer applies longest match to operator names: where several
\* operator names are prefixes of the rest of the input (and no number
\* starts there), the token is the longest of them; so 'log10(x)' and
\* 'cosec(x)' parse to Unary(log10, x) and Unary(cosec, x).
LongestOperatorMatch ==
    LET i == skip_space(string, current_index)
        t == Lexer_peek(string, current_index)
        longest == longest_match(unary_operators \o binary_operators, string, i)
    IN  /\ (Peeking /\ num_pattern_match(string, i) = 0 /\ longest # <<>>)
              => (~IsErr(t) /\ t[2] = longest)
        /\ (pc = "done" /\ round = 1 /\ string = <<"l", "o", "g", "1", "0", "(", "x", ")">>)
              => result = <<"UnaryExpression", <<"l", "o", "g", "1", "0">>, Var(<<"x">>)>>
        /\ (pc = "done" /\ round = 1 /\ string = <<"c", "o", "s", "e", "c", "(", "x", ")">>)
              => result = <<"UnaryExpression", <<"c", "o", "s", "e", "c">>, Var(<<"x">>)>>

\* C7: '**' is lexed as the one token '^' and both its characters are
\* consumed, so 'p ** q' parses to the tree of 'p ^ q'.
DoubleStarIsPower ==
    LET i == skip_space(string, current_index)
        c == Lexer_consume(string, current_index)
    IN  /\ (Peeking /\ startswith(string, <<"*", "*">>, i))
              => (~IsErr(c) /\ c[2] = <<"^">> /\ c[3] = i + 2)
        /\ \A p, q \in 1..Len(Operands) :
              (pc = "done" /\ round = 1
                  /\ string = PowerInput(Operands[p], <<"*", "*">>, Operands[q]))
                => result = make_binary_expression(BinaryOperator(<<"^">>),
                                make_terminal(Operands[p]), make_terminal(Operands[q]))

\* C8: for every parsed tree that contains a '^' node whose base and exponent
\* are both non-constant, wherever the node sits, the derivative with respect
\* to any variable fails with NotImplementedError (UnsupportedExpression)
\* and no result is returned.
RECURSIVE HasVariablePower(_)
HasVariablePower(e) ==
    CASE e[1] = "UnaryExpression" -> HasVariablePower(e[3])
      [] e[1] = "BinaryExpression" ->
            \/ (e[3] = <<"^">> /\ ~IsConst(e[2]) /\ ~IsConst(e[4]))
            \/ HasVariablePower(e[2])
            \/ HasVariablePower(e[4])
      [] OTHER -> FALSE

VariablePowerIsUnsupported ==
    (derivative # None /\ HasVariablePower(result))
        => derivative[3] = Err("NotImplementedError")

\* C9: the lexer never returns a numeric token that is a negative zero
\* ('-0', '-0.0', ...), at any position of any input.
IsNegativeZero(value) ==
    /\ Len(value) >= 2
    /\ value[1] = "-"
    /\ \A k \in 2..Len(value) : value[k] \in {"0", "."}

NoNegativeZeroToken ==
    LET t == Lexer_peek(string, current_index)
    IN  (Peeking /\ ~IsErr(t)) => ~IsNegativeZero(t[2])

\* C10: stack discipline of the parser.  At every step of parse the operator
\* stack is non-empty with the initial sentinel at its bottom; pop_operator
\* is never called with a sentinel on top nor with fewer operands than the
\* operator needs; the comparison of operators never reaches its 'not
\* implemented' branch; so every failure of parse is a lexer or syntax
\* error (BadInput) or an error of the simplification; and at the final
\* assertion the operand stack holds exactly one expression and the
\* operator stack only the initial sentinel.
Parsing == pc \in {"parse_p", "parse_e_loop", "push_operator", "parse_e_reduce",
                    "parse_p_close", "parse_expect"}

\* The next step calls pop_operator.
PopOperatorCalled ==
    \/ pc = "push_operator" /\ BaseOperator_gt(Top(operator_stack), operator) = "True"
    \/ pc = "parse_e_reduce" /\ Top(operator_stack)[1] # "BaseOperator"

SimplificationErrors ==
    {Err("ValueError: Division by Zero"), Err("DivisionByZero"),
     Err("InvalidOperation")}

StackDiscipline ==
    /\ Parsing => (operator_stack # <<>> /\ operator_stack[1] = BaseOperator)
    /\ (Parsing /\ PopOperatorCalled)
          => /\ Top(operator_stack)[1] # "BaseOperator"
             /\ Len(operand_stack) >=
                    (IF Top(operator_stack)[1] = "BinaryOperator" THEN 2 ELSE 1)
    /\ pc = "push_operator"
          => BaseOperator_gt(Top(operator_stack), operator) # "ValueError"
    /\ (pc = "done" /\ IsErr(result) /\ InRange(result))
          => result \in {Err("BadInput")} \cup SimplificationErrors
    /\ (pc = "parse_expect" /\ Lexer_peek(string, current_index) = <<"Token", <<>>, Len(string)>>)
          => (Len(operand_stack) = 1 /\ operator_stack = <<BaseOperator>>)

\* pop_operator is about to reduce a binary operator inside parentheses: a
\* second sentinel lies under it.
StackDisciplineWitness ==
    /\ pc = "parse_e_reduce"
    /\ Len(operator_stack) = 3
    /\ operator_stack[2] = BaseOperator
    /\ Top(operator_stack)[1] = "BinaryOperator"
    /\ Len(operand_stack) = 2

\* C11: normalization invariant.  Every tree returned by parse, and every
\* tree returned by differentiate (dx(wrt) simplified) for a tree returned
\* by parse, is in normal form at every node: no BinaryExpression in it has
\* two Const operands, a '+' or '-' with an operand equal to 0, a '*' with
\* an operand equal to 0 or 1, a '/' whose left operand equals 0 or whose
\* right operand equals 0 or 1, or a '^' whose exponent equals 0 or 1; and
\* simplify returns such a tree unchanged.
IsZero(e) == IsConst(e) /\ Decimal_eq(e[2], Decimal(0, 0, 0))

IsOne(e) == IsConst(e) /\ Decimal_eq(e[2], Decimal(0, 1, 0))

RECURSIVE NormalForm(_)
NormalForm(e) ==
    CASE e[1] = "Const" -> TRUE
      [] e[1] = "Var" -> TRUE
      [] e[1] = "UnaryExpression" -> NormalForm(e[3])
      [] e[1] = "BinaryExpression" ->
            /\ NormalForm(e[2])
            /\ NormalForm(e[4])
            /\ ~(IsConst(e[2]) /\ IsConst(e[4]))
            /\ e[3] \in {<<"+">>, <<"-">>} => ~(IsZero(e[2]) \/ IsZero(e[4]))
            /\ e[3] = <<"*">> => ~(IsZero(e[2]) \/ IsZero(e[4]) \/ IsOne(e[2]) \/ IsOne(e[4]))
            /\ e[3] = <<"/">> => ~(IsZero(e[2]) \/ IsZero(e[4]) \/ IsOne(e[4]))
            /\ e[3] = <<"^">> => ~(IsZero(e[4]) \/ IsOne(e[4]))

NormalizationInvariant ==
    /\ (pc = "done" /\ ~IsErr(result))
          => (NormalForm(result) /\ simplify(result) = result)
    /\ (derivative # None /\ ~IsErr(derivative[3]))
          => (NormalForm(derivative[3]) /\ simplify(derivative[3]) = derivative[3])

\* The quotient rule returned a BinaryExpression for a parsed quotient.
NormalizationInvariantWitness ==
    /\ pc = "done"
    /\ round = 1
    /\ result[1] = "BinaryExpression"
    /\ result[3] = <<"/">>
    /\ derivative # None
    /\ derivative[3][1] = "BinaryExpression"

====
